---- MODULE Spec2Model ----
(***************************************************************************)
(* Model of the message retrieval engine of whatsapp-wrapped:              *)
(* MessageSearcher (src/search.py) with its three retrieval methods, the   *)
(* rank fusion of search_hybrid, the lazily built embedding cache, and     *)
(* FeatureExtractor.find_conversation_threads (src/features.py).           *)
(*                                                                         *)
(* Conventions.                                                            *)
(*  - A message is identified by its position in the corpus (the code      *)
(*    keys by id(message); the objects of one list are distinct).          *)
(*  - Scores are exact integers: a BM25 score is the integer the library   *)
(*    returned, a keyword score is the match count, a cosine similarity    *)
(*    is stored multiplied by 25 (every vector of the model has an         *)
(*    integer norm in {0,1,5}, so 25*cos is an integer).  A fused score    *)
(*    is the exact rational num/den.  Floating point rounding is not       *)
(*    modelled.                                                            *)
(*  - rank_bm25, numpy and re are libraries outside the repository: their  *)
(*    results for the query at hand are inputs (query.bm25, query.order,   *)
(*    query.kw); the embedding provider answers m.emb for the content of   *)
(*    message m and query.vec for the query text, or fails.                *)
(***************************************************************************)
EXTENDS Integers, Sequences, FiniteSets, TLC

VARIABLES
    messages,     \* MessageSearcher.messages / Chat.messages: the corpus
    query,        \* the query of the calls, as the libraries see it
    status,       \* "new" | "ready" | "raised": outcome of __init__
    embeddings,   \* MessageSearcher._embeddings: None or the cached array
    requests,     \* number of get_embeddings_batch calls made for the corpus
    stores,       \* number of assignments made to _embeddings
    semCalls,     \* number of semantic-dependent calls started so far
    budget,       \* calls the caller may still make
    ret,          \* the last call: operation, arguments, outcome, result
    participants, \* Chat.participants
    pc,           \* concurrent callers: position inside search_semantic
    local,        \* concurrent callers: top_k and the array the caller holds
    cache         \* the features cache file of the chat file

vars == <<messages, query, status, embeddings, requests, stores, semCalls,
          budget, ret, participants, pc, local, cache>>

----------------------------------------------------------------------------
(* Bounds of the model *)

MaxMsgs == 3
MaxTopK == 2
MaxCalls == 2
NumCallers == 2
MaxPatLen == 2
MaxChatMsgs == 6
MaxTextLen == 3
MaxBatch == 3

\* _embeddings is None, or the array np.array(embeddings_list)
None == [set |-> FALSE, vecs |-> <<>>]
Array(vecs) == [set |-> TRUE, vecs |-> vecs]
Senders == {"A", "B"}

\* Values rank_bm25 can give one document: negative (a term with negative
\* idf), zero, and two positive values.
Bm25Scores == {-1, 0, 1, 2}
\* BM25 scores of the fusion runs: no hit, or a hit
FusionBm25Scores == {0, 1}
\* How a call can meet the provider: it answers, it fails on the corpus
\* request (possible only while nothing is cached), it fails on the query.
Faults == {"none", "build", "query"}
\* Match counts of the pattern in one message.
KwCounts == {0, 1}
\* Embedding vectors the provider returns; all have an integer L2 norm.
MsgVecs == {<<1, 0>>, <<3, 4>>}
QueryVecs == {<<1, 0>>, <<0, 1>>}
\* (bm25_weight, semantic_weight, keyword_weight), in tenths.
WeightSets == {<<10, 0, 0>>, <<3, 5, 2>>, <<10, 10, 10>>}
TopKs == 0..MaxTopK
\* max_gap_minutes (the default, and the gap of the chats) and
\* min_messages of the segmentations
MaxGaps == {5, 10}
MinMessages == {1, 2}

----------------------------------------------------------------------------
(* Sequences and Python list idioms *)

Min(a, b) == IF a <= b THEN a ELSE b
Max(a, b) == IF a >= b THEN a ELSE b

\* seq[:k] of Python, for any integer k.
PyPrefix(seq, k) ==
    LET n == IF k >= 0 THEN Min(k, Len(seq)) ELSE Max(Len(seq) + k, 0)
    IN SubSeq(seq, 1, n)

\* seq[k:] of Python, for any integer k.
PySuffix(seq, k) ==
    LET from == IF k >= 0 THEN Min(k, Len(seq)) ELSE Max(Len(seq) + k, 0)
    IN SubSeq(seq, from + 1, Len(seq))

Reverse(seq) == [i \in 1..Len(seq) |-> seq[Len(seq) + 1 - i]]

RECURSIVE SelectIdx(_, _, _)
\* the indices i of 1..n with keep[i], ascending
SelectIdx(keep, i, n) ==
    IF i > n THEN <<>>
    ELSE (IF keep[i] THEN <<i>> ELSE <<>>) \o SelectIdx(keep, i + 1, n)

\* list.sort(key=score, reverse=True) / sorted(..., reverse=True): a stable
\* sort, so entries of equal score keep the order they had in the input.
RECURSIVE InsertDesc(_, _)
InsertDesc(sorted, e) ==
    IF sorted = <<>> THEN <<e>>
    ELSE IF e.score > sorted[Len(sorted)].score
         THEN InsertDesc(SubSeq(sorted, 1, Len(sorted) - 1), e)
                  \o <<sorted[Len(sorted)]>>
         ELSE Append(sorted, e)

RECURSIVE SortDescFrom(_, _, _)
SortDescFrom(seq, i, acc) ==
    IF i > Len(seq) THEN acc
    ELSE SortDescFrom(seq, i + 1, InsertDesc(acc, seq[i]))

SortDesc(seq) == SortDescFrom(seq, 1, <<>>)

Idxs(results) == [i \in 1..Len(results) |-> results[i].idx]
IdxSet(results) == {results[i].idx : i \in 1..Len(results)}

IsPermOf(p, n) ==
    /\ Len(p) = n
    /\ \A i \in 1..n : \E j \in 1..n : p[j] = i

\* An argsort of the score vector: some permutation that puts the scores in
\* ascending order.  numpy's default kind is not stable, so equal scores may
\* come in any order.
IsArgsort(p, scores) ==
    /\ IsPermOf(p, Len(scores))
    /\ \A i \in 1..(Len(p) - 1) : scores[p[i]] <= scores[p[i + 1]]

----------------------------------------------------------------------------
(* The three retrieval methods. A result list is a sequence of          *)
(* [idx |-> position in the corpus, score |-> score].                    *)

Result(i, s) == [idx |-> i, score |-> s]

\* Variant without the score filter: every entry is kept.
KeepAll(results) == results

KeepPositive(results) ==
    LET Pos(r) == r.score > 0 IN SelectSeq(results, Pos)

\* search_bm25: scores[idx] for np.argsort(scores)[::-1][:top_k], keeping
\* the entries whose score is > 0.
SearchBm25(q, top_k) ==
    LET top_indices == PyPrefix(Reverse(q.order), top_k)
        scored == [i \in 1..Len(top_indices) |->
                      Result(top_indices[i], q.bm25[top_indices[i]])]
    IN KeepPositive(scored)

Dot(a, b) == a[1] * b[1] + a[2] * b[2]
\* np.linalg.norm: the vectors of the model have an integer norm
Norm(a) == CHOOSE n \in 0..5 : n * n = Dot(a, a)

\* Variant that divides by the norms without the zero test; numpy gives
\* nan for 0/0, which no comparison orders: here it is put above all.
CosineSimilarityNoZeroTest(a, b) ==
    IF Norm(a) = 0 \/ Norm(b) = 0 THEN 26
    ELSE (25 * Dot(a, b)) \div (Norm(a) * Norm(b))

\* _cosine_similarity, times 25: 0 when either norm is 0
CosineSimilarity(a, b) ==
    IF Norm(a) = 0 \/ Norm(b) = 0 THEN 0
    ELSE (25 * Dot(a, b)) \div (Norm(a) * Norm(b))

\* search_semantic after the query has been embedded: similarity of every
\* cached vector, stable sort descending, first top_k, those > 0.
SearchSemantic(embs, qvec, top_k) ==
    LET similarities == [i \in 1..Len(embs) |->
                            Result(i, CosineSimilarity(qvec, embs[i]))]
    IN KeepPositive(PyPrefix(SortDesc(similarities), top_k))

\* Variant that leaves the matches in corpus order before the cut.
SearchKeywordUnsorted(q, top_k) ==
    LET n == Len(q.kw)
        hit == [i \in 1..n |-> q.kw[i] > 0]
        hits == SelectIdx(hit, 1, n)
        results == [j \in 1..Len(hits) |-> Result(hits[j], q.kw[hits[j]])]
    IN PyPrefix(results, top_k)

\* search_keyword: the messages with at least one match, scored by their
\* number of matches, stable sort descending, first top_k.
SearchKeyword(q, top_k) ==
    LET n == Len(q.kw)
        hit == [i \in 1..n |-> q.kw[i] > 0]
        hits == SelectIdx(hit, 1, n)
        results == [j \in 1..Len(hits) |-> Result(hits[j], q.kw[hits[j]])]
    IN PyPrefix(SortDesc(results), top_k)

----------------------------------------------------------------------------
(* search_keyword on a pattern text.  A content is a sequence of         *)
(* characters.  A pattern is a non-empty sequence over PatternChars: "a"   *)
(* matches itself, "." matches any character, "(" opens a group that the   *)
(* pattern never closes, and "a{N}" is an "a" with a repetition count      *)
(* beyond the limit of the regex engine (as in "a{99999999999}").          *)

PatternChars == {"a", ".", "(", "a{N}"}

\* re.compile(pattern, flags): sre_parse raises OverflowError ("the
\* repetition number is too large") as soon as it reads the count, and
\* re.error ("missing ), unterminated subpattern") at the end of a pattern
\* whose group is still open.
Compile(pattern) ==
    IF \E i \in 1..Len(pattern) : pattern[i] = "a{N}" THEN "OverflowError"
    ELSE IF \E i \in 1..Len(pattern) : pattern[i] = "(" THEN "re.error"
    ELSE "compiled"

RegexValid(pattern) == Compile(pattern) = "compiled"

\* str.lower for the characters of the model
Lower(c) == IF c = "A" THEN "a" ELSE c

\* One pattern character against one content character.  escaped: the
\* pattern went through re.escape, so every character stands for itself.
CharMatches(p, c, escaped, ignorecase) ==
    IF ~escaped /\ p = "." THEN TRUE
    ELSE IF ignorecase THEN Lower(p) = Lower(c) ELSE p = c

MatchesAt(pattern, content, pos, escaped, ignorecase) ==
    /\ pos + Len(pattern) - 1 <= Len(content)
    /\ \A i \in 1..Len(pattern) :
          CharMatches(pattern[i], content[pos + i - 1], escaped, ignorecase)

\* len(list(regex.finditer(content))): leftmost matches that do not overlap
RECURSIVE CountMatches(_, _, _, _, _)
CountMatches(pattern, content, pos, escaped, ignorecase) ==
    IF pos + Len(pattern) - 1 > Len(content) THEN 0
    ELSE IF MatchesAt(pattern, content, pos, escaped, ignorecase)
         THEN 1 + CountMatches(pattern, content, pos + Len(pattern), escaped,
                               ignorecase)
         ELSE CountMatches(pattern, content, pos + 1, escaped, ignorecase)

\* Lines 121-131: the compiled pattern, or after re.error the compiled
\* escaped pattern with the same flags; the number of matches per message.
KeywordCounts(msgs, pattern, case_insensitive) ==
    [i \in 1..Len(msgs) |->
        CountMatches(pattern, msgs[i].content, 1, ~RegexValid(pattern),
                     case_insensitive)]

\* search_keyword(pattern, case_insensitive, top_k), the whole call: only
\* re.error is caught (line 125), any other exception of re.compile leaves
\* the call.
SearchKeywordPattern(msgs, pattern, case_insensitive, top_k) ==
    IF Compile(pattern) \notin {"compiled", "re.error"}
    THEN [raised |-> TRUE, result |-> <<>>]
    ELSE [raised |-> FALSE,
          result |-> SearchKeyword(
                         [kw |-> KeywordCounts(msgs, pattern,
                                               case_insensitive)], top_k)]

----------------------------------------------------------------------------
(* _tokenize.  A text is a sequence of characters of TextChars: a lower   *)
(* and an upper case letter, the underscore, a blank and a full stop.      *)

TextChars == {"a", "B", "_", " ", "."}

\* str.lower for the characters of a text
LowerChar(c) == IF c = "B" THEN "b" ELSE c

\* the class \w of re: letters, digits and the underscore
IsWordChar(c) == c \in {"a", "b", "B", "_"}

\* re.findall(r'\b\w+\b', text): the maximal runs of \w characters, left
\* to right.  cur is the run being read.
RECURSIVE FindWords(_, _, _)
FindWords(text, i, cur) ==
    IF i > Len(text) THEN (IF cur = <<>> THEN <<>> ELSE <<cur>>)
    ELSE IF IsWordChar(text[i])
         THEN FindWords(text, i + 1, Append(cur, text[i]))
         ELSE (IF cur = <<>> THEN <<>> ELSE <<cur>>)
                  \o FindWords(text, i + 1, <<>>)

\* _tokenize(text)
Tokenize(text) ==
    FindWords([i \in 1..Len(text) |-> LowerChar(text[i])], 1, <<>>)

----------------------------------------------------------------------------
(* Rank fusion (search_hybrid) *)

RECURSIVE MaxScoreFrom(_, _, _)
MaxScoreFrom(results, i, m) ==
    IF i > Len(results) THEN m
    ELSE MaxScoreFrom(results, i + 1, Max(m, results[i].score))

MaxScore(results) == MaxScoreFrom(results, 2, results[1].score)

\* normalize_scores: {} for an empty list or a maximum of 0, else the map
\* message -> score / max_score, kept as the scores and their divisor.
NormalizeScores(results) ==
    IF results = <<>> THEN [max |-> 1, of |-> [i \in {} |-> 0]]
    ELSE IF MaxScore(results) = 0 THEN [max |-> 1, of |-> [i \in {} |-> 0]]
    ELSE [max |-> MaxScore(results),
          of |-> [i \in IdxSet(results) |->
                     (CHOOSE r \in {results[j] : j \in 1..Len(results)} :
                          r.idx = i).score]]

\* scores.get(msg_id, 0) * weight, over the common denominator den
Weighted(norm, i, weight, den) ==
    IF i \in DOMAIN norm.of
    THEN weight * norm.of[i] * (den \div norm.max)
    ELSE 0

\* Variant that never finds a message among the entries made so far.
PositionNotFound(acc, i) == 0

\* message_scores is keyed by id(message): the entry of message i, 0 if none
Position(acc, i) ==
    IF \E j \in 1..Len(acc) : acc[j].idx = i
    THEN CHOOSE j \in 1..Len(acc) : acc[j].idx = i
    ELSE 0

\* One pass of the inner loop: message_scores is a dict, which keeps its
\* keys in the order they were first inserted.
RECURSIVE MergeList(_, _, _, _, _, _)
MergeList(acc, results, i, norm, weight, den) ==
    IF i > Len(results) THEN acc
    ELSE LET id == results[i].idx
             add == Weighted(norm, id, weight, den)
             at == Position(acc, id)
             next == IF at = 0
                     THEN Append(acc, Result(id, add))
                     ELSE [acc EXCEPT ![at].score = @ + add]
         IN MergeList(next, results, i + 1, norm, weight, den)

\* The order in which search_hybrid merges the three candidate lists.
MergeOrder == <<1, 2, 3>>

RECURSIVE MergeAll(_, _, _, _, _, _)
MergeAll(acc, lists, weights, order, k, den) ==
    IF k > Len(order) THEN acc
    ELSE MergeAll(MergeList(acc, lists[order[k]], 1,
                            NormalizeScores(lists[order[k]]),
                            weights[order[k]], den),
                  lists, weights, order, k + 1, den)

FusedDen(lists) ==
    NormalizeScores(lists[1]).max * NormalizeScores(lists[2]).max
        * NormalizeScores(lists[3]).max

\* Lines 159-201 of search_hybrid, given the three candidate lists: the
\* fused list, each score being score/den.
Fuse(lists, weights, order, top_k) ==
    LET den == FusedDen(lists)
        message_scores == MergeAll(<<>>, lists, weights, order, 1, den)
    IN [result |-> PyPrefix(SortDesc(message_scores), top_k), den |-> den]

\* The number of candidates search_hybrid asks of each method.
\* Variant that asks each method for top_k candidates only.
CandidatesTopKOnly(top_k) == top_k

Candidates(top_k) == top_k * 2

\* The three candidate lists of search_hybrid.
CandidateLists(embs, q, top_k) ==
    << SearchBm25(q, Candidates(top_k)),
       SearchSemantic(embs.vecs, q.vec, Candidates(top_k)),
       SearchKeyword(q, Candidates(top_k)) >>

SearchHybrid(embs, q, top_k, weights) ==
    Fuse(CandidateLists(embs, q, top_k), weights, MergeOrder, top_k)

----------------------------------------------------------------------------
(* The embedding cache and the calls that depend on it.  okBuild says     *)
(* whether the provider answers the corpus request, okQuery whether it     *)
(* answers the request for the query text; a failed request raises.        *)

\* What get_embeddings_batch returns for the corpus: one vector a message,
\* in corpus order.
EmbedAll(msgs) == Array([i \in 1..Len(msgs) |-> msgs[i].emb])

\* _compute_embeddings: nothing to do once the cache is set; else one
\* request, whose answer is stored only if the request succeeds.
\* Variant without the cache check: the corpus is requested on every call.
ComputeEmbeddingsUncached(embs, msgs, okBuild) ==
    IF okBuild
    THEN [emb |-> EmbedAll(msgs), requested |-> TRUE, raised |-> FALSE]
    ELSE [emb |-> embs, requested |-> TRUE, raised |-> TRUE]

\* Variant that keeps the vectors received before the provider failed.
ComputeEmbeddingsKeepsPartial(embs, msgs, okBuild) ==
    IF embs # None
    THEN [emb |-> embs, requested |-> FALSE, raised |-> FALSE]
    ELSE IF okBuild
         THEN [emb |-> EmbedAll(msgs), requested |-> TRUE, raised |-> FALSE]
         ELSE [emb |-> Array(PyPrefix(EmbedAll(msgs).vecs, 1)),
               requested |-> TRUE, raised |-> TRUE]

ComputeEmbeddings(embs, msgs, okBuild) ==
    IF embs # None
    THEN [emb |-> embs, requested |-> FALSE, raised |-> FALSE]
    ELSE IF okBuild
         THEN [emb |-> EmbedAll(msgs), requested |-> TRUE, raised |-> FALSE]
         ELSE [emb |-> None, requested |-> TRUE, raised |-> TRUE]

Outcome(ce, raised, result, den) ==
    [emb |-> ce.emb, requested |-> ce.requested, raised |-> raised,
     result |-> result, den |-> den]

\* search_semantic, the whole call
SemanticCall(embs, msgs, qvec, top_k, okBuild, okQuery) ==
    LET ce == ComputeEmbeddings(embs, msgs, okBuild)
    IN IF ce.raised \/ ~okQuery
       THEN Outcome(ce, TRUE, <<>>, 1)
       ELSE Outcome(ce, FALSE, SearchSemantic(ce.emb.vecs, qvec, top_k), 1)

\* search_hybrid, the whole call: the three searches run one after the
\* other and nothing catches what search_semantic raises.
HybridCall(embs, msgs, q, top_k, weights, okBuild, okQuery) ==
    LET sem == SemanticCall(embs, msgs, q.vec, Candidates(top_k),
                            okBuild, okQuery)
        lists == << SearchBm25(q, Candidates(top_k)),
                    sem.result,
                    SearchKeyword(q, Candidates(top_k)) >>
        fused == Fuse(lists, weights, MergeOrder, top_k)
    IN IF sem.raised
       THEN sem
       ELSE [sem EXCEPT !.result = fused.result, !.den = fused.den]

\* find_similar_messages: search_semantic on the reference's content with
\* top_k + 1, without the first result.
FindSimilarCall(embs, msgs, ref, top_k, okBuild, okQuery) ==
    LET sem == SemanticCall(embs, msgs, msgs[ref].emb, top_k + 1,
                            okBuild, okQuery)
    IN [sem EXCEPT !.result = PySuffix(@, 1)]

\* BM25Okapi(corpus) divides by the corpus size: ZeroDivisionError on an
\* empty corpus.
Bm25InitRaises(msgs) == Len(msgs) = 0

\* The default weights of search_hybrid, in tenths.
DefaultWeights == <<3, 5, 2>>
\* The weights of the call sequences
LifeWeights == {DefaultWeights, <<10, 0, 0>>}

\* search_by_sender.  sub is what the libraries give for the sender's
\* messages alone (BM25 statistics are those of the temporary corpus).
SearchBySenderCall(msgs, q, sender, hasQuery, top_k, sub, okBuild, okQuery) ==
    LET isFrom == [i \in 1..Len(msgs) |-> msgs[i].sender = sender]
        sender_idx == SelectIdx(isFrom, 1, Len(msgs))
        sender_messages == [j \in 1..Len(sender_idx) |-> msgs[sender_idx[j]]]
        last == PySuffix(sender_idx, 0 - top_k)
        subq == [bm25 |-> sub.bm25, order |-> sub.order,
                 kw |-> [j \in 1..Len(sender_idx) |-> q.kw[sender_idx[j]]],
                 vec |-> q.vec]
        temp == HybridCall(None, sender_messages, subq, top_k,
                           DefaultWeights, okBuild, okQuery)
    IN IF ~hasQuery
       THEN [raised |-> FALSE, den |-> 1,
             result |-> [j \in 1..Len(last) |-> Result(last[j], 1)]]
       ELSE IF Bm25InitRaises(sender_messages)
            THEN [raised |-> TRUE, den |-> 1, result |-> <<>>]
            ELSE [raised |-> temp.raised, den |-> temp.den,
                  result |-> [j \in 1..Len(temp.result) |->
                                 Result(sender_idx[temp.result[j].idx],
                                        temp.result[j].score)]]

----------------------------------------------------------------------------
(* find_conversation_threads (src/features.py).  Timestamps are minutes, *)
(* a thread is the sequence of corpus positions of its messages.          *)

\* sorted(messages, key=timestamp): stable, ascending; as corpus positions
RECURSIVE InsertByTs(_, _, _)
InsertByTs(sorted, i, msgs) ==
    IF sorted = <<>> THEN <<i>>
    ELSE IF msgs[i].ts < msgs[sorted[Len(sorted)]].ts
         THEN InsertByTs(SubSeq(sorted, 1, Len(sorted) - 1), i, msgs)
                  \o <<sorted[Len(sorted)]>>
         ELSE Append(sorted, i)

RECURSIVE SortByTsFrom(_, _, _)
SortByTsFrom(msgs, i, acc) ==
    IF i > Len(msgs) THEN acc
    ELSE SortByTsFrom(msgs, i + 1, InsertByTs(acc, i, msgs))

\* Variant that walks the messages in input order.
SortedMsgsInputOrder(msgs) == [i \in 1..Len(msgs) |-> i]

SortedMsgs(msgs) == SortByTsFrom(msgs, 1, <<>>)

\* Variant in which a new thread starts with the message before the gap.
RECURSIVE WalkThreadsOverlapping(_, _, _, _, _, _)
WalkThreadsOverlapping(sorted, msgs, i, st, max_gap, min_messages) ==
    IF i > Len(sorted) THEN st
    ELSE LET gap == msgs[sorted[i]].ts - msgs[sorted[i - 1]].ts
             next ==
                 IF gap <= max_gap
                 THEN [st EXCEPT !.current = Append(@, sorted[i])]
                 ELSE [threads |-> IF Len(st.current) >= min_messages
                                   THEN Append(st.threads, st.current)
                                   ELSE st.threads,
                       current |-> <<sorted[i - 1], sorted[i]>>]
         IN WalkThreadsOverlapping(sorted, msgs, i + 1, next, max_gap,
                                   min_messages)

\* The loop of lines 245-255: st.threads are the committed threads,
\* st.current the thread being built.
RECURSIVE WalkThreads(_, _, _, _, _, _)
WalkThreads(sorted, msgs, i, st, max_gap, min_messages) ==
    IF i > Len(sorted) THEN st
    ELSE LET gap == msgs[sorted[i]].ts - msgs[sorted[i - 1]].ts
             next ==
                 IF gap <= max_gap
                 THEN [st EXCEPT !.current = Append(@, sorted[i])]
                 ELSE [threads |-> IF Len(st.current) >= min_messages
                                   THEN Append(st.threads, st.current)
                                   ELSE st.threads,
                       current |-> <<sorted[i]>>]
         IN WalkThreads(sorted, msgs, i + 1, next, max_gap, min_messages)

\* Variant that forgets the thread still open at the end of the stream.
CommittedThreadsNoFinal(msgs, max_gap, min_messages) ==
    LET sorted == SortedMsgs(msgs)
    IN WalkThreads(sorted, msgs, 2,
                   [threads |-> <<>>, current |-> <<sorted[1]>>],
                   max_gap, min_messages).threads

\* Lines 241-258: the committed threads, in the order they were committed.
CommittedThreads(msgs, max_gap, min_messages) ==
    LET sorted == SortedMsgs(msgs)
        st == WalkThreads(sorted, msgs, 2,
                          [threads |-> <<>>, current |-> <<sorted[1]>>],
                          max_gap, min_messages)
    IN IF Len(st.current) >= min_messages
       THEN Append(st.threads, st.current)
       ELSE st.threads

RECURSIVE SumLen(_, _, _)
SumLen(thread, msgs, i) ==
    IF i > Len(thread) THEN 0
    ELSE msgs[thread[i]].clen + SumLen(thread, msgs, i + 1)

\* Variant that takes the number of messages for the number of pairs.
MaxChangesIsCount(message_count) == message_count

\* line 282: the number of adjacent pairs of a thread
MaxChanges(message_count) == message_count - 1

\* _score_thread.  exchange_score is the exact rational
\*   num / (25000 * nParticipants * dq),  dq = message_count * max_changes
\* (max_changes replaced by 1 when it is 0), from
\*   0.4*changes/max_changes + 0.2*senders/nParticipants
\*     + 0.2*min(count/50, 1) + 0.2*min(total_len/(100*count), 1).
\* factors are the four local factors, each as <<numerator, denominator>>.
\* ConversationThread.duration_minutes (timestamps are minutes)
DurationMinutes(thread) == thread.end_time - thread.start_time

\* Variant that samples the first five messages.
SampleFirstFive(thread) == PyPrefix(thread, 5)

\* messages[:3] + messages[len(messages)//2:len(messages)//2+2]
SampleOf(thread) ==
    LET count == Len(thread)
    IN PyPrefix(thread, 3)
           \o SubSeq(thread, Min(count \div 2, count) + 1,
                     Min(count \div 2 + 2, count))

\* A sample text m.content[:100] is given by its message and its length.
ScoreThread(thread, msgs, nParticipants) ==
    LET count == Len(thread)
        senders == {msgs[thread[i]].sender : i \in 1..count}
        changes == Cardinality({i \in 2..count :
                       msgs[thread[i]].sender # msgs[thread[i - 1]].sender})
        max_changes == MaxChanges(count)
        m == IF max_changes > 0 THEN max_changes ELSE 1
        total_len == SumLen(thread, msgs, 1)
        sample == SampleOf(thread)
    IN [start_time |-> msgs[thread[1]].ts,
        end_time |-> msgs[thread[count]].ts,
        message_count |-> count,
        participants |-> senders,
        num |-> (IF max_changes > 0
                 THEN 2 * changes * 5000 * nParticipants * count ELSE 0)
                + Cardinality(senders) * 5000 * m * count
                + Min(count, 50) * 100 * nParticipants * m * count
                + Min(total_len, 100 * count) * 50 * nParticipants * m,
        dq |-> m * count,
        factors |-> [alternation_ratio |->
                         IF max_changes > 0 THEN <<changes, max_changes>>
                         ELSE <<0, 1>>,
                     participant_factor |->
                         <<Cardinality(senders), nParticipants>>,
                     message_factor |-> <<Min(count, 50), 50>>,
                     length_factor |->
                         <<Min(total_len, 100 * count), 100 * count>>],
        sample_messages |-> [i \in 1..Len(sample) |->
                                [msg |-> sample[i],
                                 len |-> Min(msgs[sample[i]].clen, 100)]]]

\* summarize_thread: the messages of all_messages (the sorted copy) whose
\* timestamp lies in the thread's time range, as corpus positions
SummarizeSelection(thread, msgs) ==
    LET all_messages == SortedMsgs(msgs)
        InRange(i) == /\ thread.start_time <= msgs[i].ts
                      /\ msgs[i].ts <= thread.end_time
    IN SelectSeq(all_messages, InRange)

\* Variant that leaves the threads in the order they were committed.
InsertThreadAtEnd(sorted, t) == Append(sorted, t)

\* scored_threads.sort(key=exchange_score, reverse=True): stable
RECURSIVE InsertThread(_, _)
InsertThread(sorted, t) ==
    IF sorted = <<>> THEN <<t>>
    ELSE IF t.num * sorted[Len(sorted)].dq > sorted[Len(sorted)].num * t.dq
         THEN InsertThread(SubSeq(sorted, 1, Len(sorted) - 1), t)
                  \o <<sorted[Len(sorted)]>>
         ELSE Append(sorted, t)

RECURSIVE SortThreadsFrom(_, _, _)
SortThreadsFrom(seq, i, acc) ==
    IF i > Len(seq) THEN acc
    ELSE SortThreadsFrom(seq, i + 1, InsertThread(acc, seq[i]))

\* Variant that sorts chat.messages in place.
ChatMessagesSortedInPlace(msgs) ==
    [i \in 1..Len(msgs) |-> msgs[SortedMsgs(msgs)[i]]]

\* chat.messages after the call: sorted() builds a new list (line 241) and
\* nothing assigns to the chat or to a message.
ChatMessagesAfter(msgs) == msgs

\* The number of threads find_conversation_threads returns at most.
TopThreads == 5

\* find_conversation_threads, the whole call.  Dividing by
\* len(chat.participants) raises when the participant list is empty.
FindConversationThreads(msgs, parts, max_gap, min_messages) ==
    IF Len(msgs) = 0 THEN [raised |-> FALSE, result |-> <<>>]
    ELSE LET threads == CommittedThreads(msgs, max_gap, min_messages)
             scored == [i \in 1..Len(threads) |->
                           ScoreThread(threads[i], msgs, Cardinality(parts))]
         IN IF threads # <<>> /\ Cardinality(parts) = 0
            THEN [raised |-> TRUE, result |-> <<>>]
            ELSE [raised |-> FALSE,
                  result |-> PyPrefix(SortThreadsFrom(scored, 1, <<>>),
                                      TopThreads)]

----------------------------------------------------------------------------
(* Inputs *)

Callers == 1..NumCallers

Perms(n) == {p \in [1..n -> 1..n] : \A i, j \in 1..n : p[i] = p[j] => i = j}

\* What the libraries and the provider give for one query over a corpus of
\* n messages: BM25 scores, their argsort, match counts, query embedding.
\* Every argsort of a score vector
AllArgsorts(scores) == {p \in Perms(Len(scores)) : IsArgsort(p, scores)}

\* The argsort a stable sort gives: equal scores in corpus order.
StableArgsort(scores) ==
    CHOOSE p \in Perms(Len(scores)) :
        /\ IsArgsort(p, scores)
        /\ \A i \in 1..(Len(p) - 1) :
              scores[p[i]] = scores[p[i + 1]] => p[i] < p[i + 1]

\* The argsort that has equal scores in reverse corpus order
ReverseStableArgsort(scores) ==
    CHOOSE p \in Perms(Len(scores)) :
        /\ IsArgsort(p, scores)
        /\ \A i \in 1..(Len(p) - 1) :
              scores[p[i]] = scores[p[i + 1]] => p[i] > p[i + 1]

\* Two resolutions of the ties of an argsort: the stable one and its mirror
TwoArgsorts(scores) == {StableArgsort(scores), ReverseStableArgsort(scores)}

\* allTies: every resolution of the ties, or the two above
Argsorts(scores, allTies) ==
    IF allTies THEN AllArgsorts(scores) ELSE TwoArgsorts(scores)

Queries(n, bm25Vals, allTies, kwVals, vecs) ==
    UNION {{[bm25 |-> b, order |-> p, kw |-> k, vec |-> v] :
               p \in Argsorts(b, allTies), k \in [1..n -> kwVals], v \in vecs} :
           b \in [1..n -> bm25Vals]}

\* BM25 results for the messages of one sender (the temporary searcher of
\* search_by_sender); the messages of one sender are alike in these chats.
SubQueries(n) ==
    {[bm25 |-> [i \in 1..n |-> 1], order |-> [i \in 1..n |-> i]]}

Corpora(msgSet, minLen) == UNION {[1..n -> msgSet] : n \in minLen..MaxMsgs}

\* The features cache (src/features.py).  No cache file yet:
NoFile == [exists |-> FALSE]

\* compute_chat_hash: the digest of "<count>_<first timestamp>_<last
\* timestamp>", given by these three values; messages[0] raises IndexError
\* on a chat without messages
ComputeChatHash(msgs) ==
    IF Len(msgs) = 0
    THEN [raised |-> TRUE, hash |-> <<>>]
    ELSE [raised |-> FALSE,
          hash |-> <<Len(msgs), msgs[1].ts, msgs[Len(msgs)].ts>>]

\* extract_all_features: the features of a chat, told by the messages they
\* were extracted from, with the chat's hash
ExtractAllFeatures(msgs) ==
    [chat_hash |-> ComputeChatHash(msgs).hash, of |-> msgs]

\* load_or_extract_features: the cached features if the file exists and
\* carries the hash of the chat, else fresh features, saved to the file
LoadOrExtractFeatures(file, msgs, force_rebuild) ==
    LET chat_hash == ComputeChatHash(msgs)
    IN IF chat_hash.raised
       THEN [raised |-> TRUE, result |-> <<>>, cached |-> FALSE,
             file |-> file]
       ELSE IF /\ ~force_rebuild
               /\ file.exists
               /\ file.features.chat_hash = chat_hash.hash
            THEN [raised |-> FALSE, result |-> file.features,
                  cached |-> TRUE, file |-> file]
            ELSE [raised |-> FALSE, result |-> ExtractAllFeatures(msgs),
                  cached |-> FALSE,
                  file |-> [exists |-> TRUE,
                            features |-> ExtractAllFeatures(msgs)]]

\* parse_chat: the participants are the senders of the messages
ParticipantsOf(msgs) == {msgs[i].sender : i \in 1..Len(msgs)}

NoCall == [op |-> "none", top_k |-> 0, weights |-> <<>>, fault |-> "none",
           outcome |-> "none", result |-> <<>>, den |-> 1,
           requested |-> FALSE]

\* The record of a call: what was called with which arguments, which fault
\* the provider had in store for it, and what came of it.
Call(op, top_k, weights, fault, raised, result, den, requested) ==
    [op |-> op, top_k |-> top_k, weights |-> weights, fault |-> fault,
     outcome |-> IF raised THEN "raised" ELSE "returned",
     result |-> result, den |-> den, requested |-> requested]

\* The chats of the call-sequence specification: messages of two kinds,
\* told apart by every method.  hit says how the query of the run scores
\* a message of that kind: <<BM25 score, match count>>.
LifeMsgs ==
    { [sender |-> "A", ts |-> 0, clen |-> 50, emb |-> <<1, 0>>],
      [sender |-> "B", ts |-> 10, clen |-> 200, emb |-> <<3, 4>>] }

LifeQuery(msgs, vec) ==
    LET b == [i \in 1..Len(msgs) |-> IF msgs[i].sender = "A" THEN 2 ELSE 0]
    IN [bm25 |-> b, order |-> StableArgsort(b),
        kw |-> [i \in 1..Len(msgs) |-> IF msgs[i].sender = "B" THEN 1 ELSE 0],
        vec |-> vec]

\* A searcher in state st (none yet when st is "new") and no call made
Searcher(st, calls) ==
    /\ status = st
    /\ embeddings = None
    /\ requests = 0
    /\ stores = 0
    /\ semCalls = 0
    /\ budget = calls
    /\ ret = NoCall
    /\ pc = [c \in Callers |-> "idle"]
    /\ local = [c \in Callers |-> [top_k |-> 0, emb |-> None]]
    /\ cache = NoFile

Start(st, calls) ==
    /\ participants = ParticipantsOf(messages)
    /\ Searcher(st, calls)

\* The state before MessageSearcher(messages) is called.
Init ==
    /\ messages \in Corpora(LifeMsgs, 0)
    /\ query = LifeQuery(messages, <<1, 0>>)
    /\ Start("new", MaxCalls)

----------------------------------------------------------------------------
(* Operations of one caller *)

Idle == UNCHANGED <<pc, local, cache>>
Fixed == UNCHANGED <<messages, query, participants>>

\* MessageSearcher.__init__
Construct(embed_on_init, okBuild) ==
    /\ status = "new"
    /\ LET ce == ComputeEmbeddings(None, messages, okBuild)
           build == ~Bm25InitRaises(messages) /\ embed_on_init
           raised == Bm25InitRaises(messages) \/ (build /\ ce.raised)
       IN /\ status' = IF raised THEN "raised" ELSE "ready"
          /\ embeddings' = IF build THEN ce.emb ELSE None
          /\ requests' = IF build THEN requests + 1 ELSE requests
          /\ stores' = IF build /\ ~ce.raised THEN stores + 1 ELSE stores
          /\ ret' = Call("init", 0, <<>>,
                         IF build /\ ce.raised THEN "build" ELSE "none",
                         raised, <<>>, 1, build)
    /\ UNCHANGED <<semCalls, budget>>
    /\ Fixed /\ Idle

Ready == status = "ready" /\ budget > 0

\* A call that leaves the cache alone, and returns or raises
LexicalCall(op, top_k, raised, result) ==
    /\ Ready
    /\ budget' = budget - 1
    /\ ret' = Call(op, top_k, <<>>, "none", raised, result, 1, FALSE)
    /\ UNCHANGED <<status, embeddings, requests, stores, semCalls>>
    /\ Fixed /\ Idle

Lexical(op, top_k, result) == LexicalCall(op, top_k, FALSE, result)

\* What a call that goes through _compute_embeddings does to the searcher;
\* out is its outcome
SemanticEffect(out) ==
    /\ Ready
    /\ budget' = budget - 1
    /\ semCalls' = semCalls + 1
    /\ embeddings' = out.emb
    /\ requests' = IF out.requested THEN requests + 1 ELSE requests
    /\ stores' = IF out.emb # embeddings THEN stores + 1 ELSE stores
    /\ UNCHANGED status
    /\ Fixed /\ Idle

Semantic(op, top_k, weights, fault, out) ==
    /\ SemanticEffect(out)
    /\ ret' = Call(op, top_k, weights, fault, out.raised, out.result,
                   out.den, out.requested)

CallBm25(top_k) == Lexical("bm25", top_k, SearchBm25(query, top_k))

CallKeyword(top_k) == Lexical("keyword", top_k, SearchKeyword(query, top_k))

\* The faults a call on the present cache can meet
FaultsNow(embs) == IF embs = None THEN Faults ELSE Faults \ {"build"}

CallSemantic(top_k, fault) ==
    Semantic("semantic", top_k, <<>>, fault,
             SemanticCall(embeddings, messages, query.vec, top_k,
                          fault # "build", fault = "none"))

CallHybrid(top_k, weights, fault) ==
    Semantic("hybrid", top_k, weights, fault,
             HybridCall(embeddings, messages, query, top_k, weights,
                        fault # "build", fault = "none"))

\* reference_message is the message at corpus position ref
CallFindSimilar(ref, top_k, fault) ==
    /\ SemanticEffect(FindSimilarCall(embeddings, messages, ref, top_k,
                                      fault # "build", fault = "none"))
    /\ LET out == FindSimilarCall(embeddings, messages, ref, top_k,
                                  fault # "build", fault = "none")
       IN ret' = Call("similar", top_k, <<>>, fault, out.raised, out.result,
                      out.den, out.requested) @@ [ref |-> ref]

CallBySender(sender, hasQuery, top_k, fault) ==
    /\ Ready
    /\ \E sub \in SubQueries(Cardinality({i \in 1..Len(messages) :
                                            messages[i].sender = sender})) :
          LET out == SearchBySenderCall(messages, query, sender, hasQuery,
                                        top_k, sub, fault # "build",
                                        fault = "none")
          IN ret' = Call(IF hasQuery THEN "sender_query" ELSE "sender",
                         top_k, <<>>, IF hasQuery THEN fault ELSE "none",
                         out.raised, out.result, out.den, FALSE)
    /\ budget' = budget - 1
    /\ UNCHANGED <<status, embeddings, requests, stores, semCalls>>
    /\ Fixed /\ Idle

\* FeatureExtractor(chat).find_conversation_threads: needs no searcher
CallFindThreads(max_gap, min_messages) ==
    /\ budget > 0
    /\ budget' = budget - 1
    /\ LET out == FindConversationThreads(messages, participants,
                                          max_gap, min_messages)
       IN ret' = Call("threads", 0, <<>>, "none", out.raised, out.result, 1,
                      FALSE)
                     @@ [max_gap |-> max_gap, min_messages |-> min_messages]
    /\ messages' = ChatMessagesAfter(messages)
    /\ UNCHANGED <<status, embeddings, requests, stores, semCalls>>
    /\ UNCHANGED <<query, participants>> /\ Idle

Next ==
    \/ \E e \in BOOLEAN, f \in {"none", "build"} : Construct(e, f = "none")
    \/ \E k \in TopKs : CallBm25(k)
    \/ \E k \in TopKs : CallKeyword(k)
    \/ \E k \in TopKs, f \in FaultsNow(embeddings) : CallSemantic(k, f)
    \/ \E k \in TopKs, w \in LifeWeights, f \in FaultsNow(embeddings) :
          CallHybrid(k, w, f)
    \/ \E r \in {1, Len(messages)}, k \in TopKs, f \in FaultsNow(embeddings) :
          CallFindSimilar(r, k, f)
    \/ \E s \in Senders, k \in TopKs : CallBySender(s, FALSE, k, "none")
    \/ \E s \in Senders, k \in TopKs, f \in {"none", "build"} :
          CallBySender(s, TRUE, k, f)
    \/ \E g \in MaxGaps, m \in MinMessages : CallFindThreads(g, m)

Spec == Init /\ [][Next]_vars

----------------------------------------------------------------------------
(* One search on a searcher that has been built over a non-empty corpus, *)
(* over every corpus, query and argsort of the bounds.                    *)

FusionMsgs == {[sender |-> "A", ts |-> 0, clen |-> 50, emb |-> e] :
                  e \in MsgVecs}

InitFusion ==
    /\ messages \in Corpora(FusionMsgs, 1)
    /\ query \in Queries(Len(messages), FusionBm25Scores, FALSE,
                         KwCounts, QueryVecs)
    /\ Start("ready", 1)

NextFusion ==
    \/ \E k \in TopKs, w \in WeightSets : CallHybrid(k, w, "none")

SpecFusion == InitFusion /\ [][NextFusion]_vars

----------------------------------------------------------------------------
(* One tokenization, over every text of the bounds.                       *)

Texts == UNION {[1..n -> TextChars] : n \in 0..MaxTextLen}

InitTokenize ==
    /\ messages \in Corpora({[sender |-> "A", ts |-> 0, clen |-> 50,
                              emb |-> <<1, 0>>]}, 1)
    /\ query \in [text : Texts]
    /\ Start("ready", 1)

CallTokenize == LexicalCall("tokenize", 0, FALSE, Tokenize(query.text))

NextTokenize == CallTokenize

SpecTokenize == InitTokenize /\ [][NextTokenize]_vars

----------------------------------------------------------------------------
(* LMStudioClient.get_embeddings_batch.  A text is a message, its          *)
(* embedding the message's emb.  order is the order in which the provider  *)
(* lists items: a batch's items come in the order of their positions in    *)
(* order.                                                                  *)

\* result["data"] for the batch texts[lo..hi]: one item a text, with its
\* 0-based index in the batch, listed in the provider's order
ProviderData(texts, lo, hi, order) ==
    LET InBatch(p) == lo <= p /\ p <= hi
        listed == SelectSeq(order, InBatch)
    IN [j \in 1..Len(listed) |->
          [index |-> listed[j] - lo, embedding |-> texts[listed[j]].emb]]

RECURSIVE InsertByIndex(_, _)
InsertByIndex(sorted, item) ==
    IF sorted = <<>> THEN <<item>>
    ELSE IF sorted[Len(sorted)].index <= item.index
         THEN Append(sorted, item)
         ELSE Append(InsertByIndex(SubSeq(sorted, 1, Len(sorted) - 1), item),
                     sorted[Len(sorted)])

RECURSIVE SortByIndexFrom(_, _, _)
SortByIndexFrom(data, i, acc) ==
    IF i > Len(data) THEN acc
    ELSE SortByIndexFrom(data, i + 1, InsertByIndex(acc, data[i]))

\* Variant that takes the items as the provider lists them.
AsListed(data) == data

\* sorted(result["data"], key=lambda x: x["index"])
SortedData(data) == SortByIndexFrom(data, 1, <<>>)

\* the loop of get_embeddings_batch from offset i (0-based) on
RECURSIVE BatchLoop(_, _, _, _, _)
BatchLoop(texts, i, batch_size, order, all_embeddings) ==
    IF i >= Len(texts) THEN all_embeddings
    ELSE LET hi == Min(i + batch_size, Len(texts))
             sorted_data == SortedData(ProviderData(texts, i + 1, hi, order))
             batch_embeddings == [j \in 1..Len(sorted_data) |->
                                    sorted_data[j].embedding]
         IN BatchLoop(texts, i + batch_size, batch_size, order,
                      all_embeddings \o batch_embeddings)

GetEmbeddingsBatch(texts, batch_size, order) ==
    BatchLoop(texts, 0, batch_size, order, <<>>)

BatchSizes == 1..MaxBatch

InitBatch ==
    /\ messages \in Corpora(LifeMsgs, 0)
    /\ \E b \in BatchSizes, o \in Perms(Len(messages)) :
          query = [batch_size |-> b, order |-> o]
    /\ Start("new", 1)

CallGetEmbeddingsBatch ==
    /\ budget > 0
    /\ budget' = budget - 1
    /\ ret' = Call("embeddings_batch", 0, <<>>, "none", FALSE,
                   GetEmbeddingsBatch(messages, query.batch_size,
                                      query.order), 1, TRUE)
    /\ UNCHANGED <<status, embeddings, requests, stores, semCalls>>
    /\ Fixed /\ Idle

NextBatch == CallGetEmbeddingsBatch

SpecBatch == InitBatch /\ [][NextBatch]_vars

----------------------------------------------------------------------------
(* Calls of load_or_extract_features on a chat file that is edited and     *)
(* parsed again between the calls.                                         *)

\* The edits of a chat: the text of a message, its sender or its minute
\* changed, a message added at the end, the last message removed.
Edits(msgs) ==
    {[msgs EXCEPT ![i].clen = IF @ = 75 THEN 50 ELSE 75] :
        i \in 1..Len(msgs)}
    \cup {[msgs EXCEPT ![i].sender = IF @ = "A" THEN "B" ELSE "A"] :
             i \in 1..Len(msgs)}
    \cup {[msgs EXCEPT ![i].ts = IF @ = 5 THEN 0 ELSE 5] :
             i \in 1..Len(msgs)}
    \cup (IF Len(msgs) <= MaxMsgs
          THEN {Append(msgs, [sender |-> "A", ts |-> 10, clen |-> 50,
                              emb |-> <<1, 0>>])}
          ELSE {})
    \cup {SubSeq(msgs, 1, Len(msgs) - 1)}

InitCache ==
    /\ messages \in Corpora(LifeMsgs, 1)
    /\ query = LifeQuery(messages, <<1, 0>>)
    /\ Start("new", MaxCalls + 1)

EditChat ==
    /\ budget > 0
    /\ budget' = budget - 1
    /\ messages' \in Edits(messages)
    /\ participants' = ParticipantsOf(messages')
    /\ ret' = Call("edit", 0, <<>>, "none", FALSE, <<>>, 1, FALSE)
    /\ UNCHANGED <<status, embeddings, requests, stores, semCalls, query,
                   pc, local, cache>>

CallLoadOrExtractFeatures(force_rebuild) ==
    /\ budget > 0
    /\ budget' = budget - 1
    /\ LET out == LoadOrExtractFeatures(cache, messages, force_rebuild)
       IN /\ cache' = out.file
          /\ ret' = Call("load_features", 0, <<>>, "none", out.raised,
                         out.result, 1, FALSE)
                        @@ [cached |-> out.cached,
                            force_rebuild |-> force_rebuild]
    /\ UNCHANGED <<status, embeddings, requests, stores, semCalls>>
    /\ Fixed
    /\ UNCHANGED <<pc, local>>

NextCache ==
    \/ EditChat
    \/ \E f \in BOOLEAN : CallLoadOrExtractFeatures(f)

SpecCache == InitCache /\ [][NextCache]_vars

----------------------------------------------------------------------------
(* One search called with a negative top_k, the provider answering.       *)

NegTopKs == {0 - k : k \in 1..MaxTopK}

NextMisuse ==
    \E k \in NegTopKs :
        \/ CallBm25(k)
        \/ CallKeyword(k)
        \/ CallSemantic(k, "none")
        \/ \E w \in WeightSets : CallHybrid(k, w, "none")
        \/ CallFindSimilar(1, k, "none")
        \/ CallBySender("A", FALSE, k, "none")

SpecMisuse == InitFusion /\ [][NextMisuse]_vars

----------------------------------------------------------------------------
(* One lexical search, over every BM25 score vector and argsort.         *)

InitBm25 ==
    /\ messages \in Corpora({[sender |-> "A", ts |-> 0, clen |-> 50,
                              emb |-> <<1, 0>>]}, 1)
    /\ query \in Queries(Len(messages), Bm25Scores, TRUE, {0},
                         {<<1, 0>>})
    /\ Start("ready", 1)

NextBm25 == \E k \in TopKs : CallBm25(k)

SpecBm25 == InitBm25 /\ [][NextBm25]_vars

----------------------------------------------------------------------------
(* One segmentation of a chat.  A chat of the bounds is a sequence of     *)
(* messages with chosen gaps between successive timestamps, in            *)
(* chronological order or, for the short ones, in reverse; a message of   *)
(* "A" has 50 characters, one of "B" 200.  Two long chats reach the 50     *)
(* messages at which the message factor is capped.                         *)

\* gaps between successive timestamps: none, or ten minutes
SegGaps == {0, 10}
\* message_count / 50 is capped at 1
MessageCap == 50

RECURSIVE TsAt(_, _)
TsAt(gaps, i) == IF i = 1 THEN 0 ELSE TsAt(gaps, i - 1) + gaps[i - 1]

ChatOf(senders, gaps) ==
    [i \in 1..Len(senders) |->
        [sender |-> senders[i], ts |-> TsAt(gaps, i),
         clen |-> IF senders[i] = "A" THEN 50 ELSE 200, emb |-> <<1, 0>>]]

LongChats ==
    {ChatOf([i \in 1..n |-> IF i % 2 = 1 THEN "A" ELSE "B"],
            [i \in 1..(n - 1) |-> 0]) : n \in {MessageCap, MessageCap + 1}}

\* the chat in chronological order, or in reverse
SegChat(senders, gaps, reversed) ==
    IF reversed THEN Reverse(ChatOf(senders, gaps))
    ELSE ChatOf(senders, gaps)

\* Chat(messages, participants): the participants parse_chat gives or,
\* for the short chats, a list that misses a sender
SegParticipants(msgs) ==
    {ParticipantsOf(msgs)} \cup (IF Len(msgs) <= MaxMsgs THEN {{"A"}} ELSE {})

NoQuery == [bm25 |-> <<>>, order |-> <<>>, kw |-> <<>>, vec |-> <<1, 0>>]

InitSeg ==
    /\ \/ \E n \in 1..MaxChatMsgs :
            \E s \in [1..n -> Senders], g \in [1..(n - 1) -> SegGaps],
               r \in {b \in BOOLEAN : b => n <= MaxMsgs} :
                messages = SegChat(s, g, r)
       \/ messages \in LongChats
    /\ participants \in SegParticipants(messages)
    /\ query = NoQuery
    /\ Searcher("new", 1)

NextSeg == \E g \in MaxGaps, m \in MinMessages : CallFindThreads(g, m)

SpecSeg == InitSeg /\ [][NextSeg]_vars

----------------------------------------------------------------------------
(* One semantic search with the provider answering, over embeddings that  *)
(* include the zero vector and vectors pointing away from the query.       *)

SemMsgVecs == MsgVecs \cup {<<0, 0>>, <<-1, 0>>}
SemQueryVecs == QueryVecs \cup {<<0, 0>>}

SemMsgs == {[sender |-> "A", ts |-> 0, clen |-> 50, emb |-> e] :
               e \in SemMsgVecs}

InitSemantic ==
    /\ messages \in Corpora(SemMsgs, 1)
    /\ query \in Queries(Len(messages), {0}, FALSE, {0}, SemQueryVecs)
    /\ Start("ready", 1)

NextSemantic == \E k \in TopKs : CallSemantic(k, "none")

SpecSemantic == InitSemantic /\ [][NextSemantic]_vars

----------------------------------------------------------------------------
(* One keyword search, over pattern texts that are and are not regular    *)
(* expressions, with and without case folding.                             *)

KwContents == { <<"A", "(">>, <<"A", "(", "a", "(">>, <<"a", ".">>,
                <<"a", "a", "a">> }

KwMsgs == {[sender |-> "A", ts |-> 0, clen |-> Len(c), emb |-> <<1, 0>>,
            content |-> c] : c \in KwContents}

Patterns == UNION {[1..n -> PatternChars] : n \in 1..MaxPatLen}

InitKeyword ==
    /\ messages \in Corpora(KwMsgs, 1)
    /\ query \in [pattern : Patterns, case_insensitive : BOOLEAN]
    /\ Start("ready", 1)

CallKeywordPattern(top_k) ==
    LET out == SearchKeywordPattern(messages, query.pattern,
                                    query.case_insensitive, top_k)
    IN LexicalCall("keyword", top_k, out.raised, out.result)

NextKeyword == \E k \in TopKs : CallKeywordPattern(k)

SpecKeyword == InitKeyword /\ [][NextKeyword]_vars

----------------------------------------------------------------------------
(* Callers that run search_semantic concurrently on one searcher: the     *)
(* steps of one call, between which other callers may run.                 *)

Others == UNCHANGED <<messages, query, participants, status, cache>>

\* the call starts
Enter(c, top_k) ==
    /\ pc[c] = "idle" /\ status = "ready" /\ budget > 0
    /\ budget' = budget - 1
    /\ semCalls' = semCalls + 1
    /\ pc' = [pc EXCEPT ![c] = "check"]
    /\ local' = [local EXCEPT ![c] = [top_k |-> top_k, emb |-> None]]
    /\ UNCHANGED <<embeddings, requests, stores, ret>>
    /\ Others

\* _compute_embeddings, line 52: return if the cache is set
Check(c) ==
    /\ pc[c] = "check"
    /\ pc' = [pc EXCEPT ![c] = IF embeddings # None THEN "embed_query"
                                ELSE "request"]
    /\ UNCHANGED <<embeddings, requests, stores, semCalls, budget, ret, local>>
    /\ Others

\* _compute_embeddings, lines 55-56: the request to the provider, which
\* answers or fails
Request(c, ok) ==
    /\ pc[c] = "request"
    /\ requests' = requests + 1
    /\ pc' = [pc EXCEPT ![c] = IF ok THEN "store" ELSE "idle"]
    /\ local' = [local EXCEPT ![c].emb = IF ok THEN EmbedAll(messages) ELSE None]
    /\ ret' = IF ok THEN ret
              ELSE Call("semantic", local[c].top_k, <<>>, "build", TRUE, <<>>,
                        1, TRUE)
    /\ UNCHANGED <<embeddings, stores, semCalls, budget>>
    /\ Others

\* _compute_embeddings, line 57: the assignment to _embeddings
Store(c) ==
    /\ pc[c] = "store"
    /\ embeddings' = local[c].emb
    /\ stores' = stores + 1
    /\ pc' = [pc EXCEPT ![c] = "embed_query"]
    /\ UNCHANGED <<requests, semCalls, budget, ret, local>>
    /\ Others

\* search_semantic, line 92: the embedding of the query, which may fail
EmbedQuery(c, ok) ==
    /\ pc[c] = "embed_query"
    /\ pc' = [pc EXCEPT ![c] = IF ok THEN "read" ELSE "idle"]
    /\ ret' = IF ok THEN ret
              ELSE Call("semantic", local[c].top_k, <<>>, "query", TRUE, <<>>,
                        1, FALSE)
    /\ UNCHANGED <<embeddings, requests, stores, semCalls, budget, local>>
    /\ Others

\* search_semantic, lines 94-112: the similarities are read off the cache
Read(c) ==
    /\ pc[c] = "read"
    /\ pc' = [pc EXCEPT ![c] = "idle"]
    /\ ret' = Call("semantic", local[c].top_k, <<>>, "none", FALSE,
                   SearchSemantic(embeddings.vecs, query.vec, local[c].top_k),
                   1, FALSE)
    /\ UNCHANGED <<embeddings, requests, stores, semCalls, budget, local>>
    /\ Others

InitConc ==
    /\ messages \in Corpora(LifeMsgs, 1)
    /\ query = LifeQuery(messages, <<1, 0>>)
    /\ Start("ready", MaxCalls)

NextConc ==
    \E c \in Callers :
        \/ \E k \in TopKs : Enter(c, k)
        \/ Check(c)
        \/ \E ok \in BOOLEAN : Request(c, ok)
        \/ Store(c)
        \/ \E ok \in BOOLEAN : EmbedQuery(c, ok)
        \/ Read(c)

SpecConc == InitConc /\ [][NextConc]_vars

----------------------------------------------------------------------------
(* Properties.  The candidate lists and totals below are stated from the *)
(* three searches directly, not through the fusion loop.                   *)

Returned(op) == ret.op = op /\ ret.outcome = "returned"

ScoreIn(list, i) ==
    IF i \in IdxSet(list)
    THEN (CHOOSE r \in {list[j] : j \in 1..Len(list)} : r.idx = i).score
    ELSE 0

TopOf(list) ==
    IF list = <<>> THEN 1
    ELSE CHOOSE m \in {list[j].score : j \in 1..Len(list)} :
             \A j \in 1..Len(list) : list[j].score <= m

\* The 2*top_k candidates of each method for the call recorded in ret
Lex == SearchBm25(query, 2 * ret.top_k)
Sem == SearchSemantic(embeddings.vecs, query.vec, 2 * ret.top_k)
Kw == SearchKeyword(query, 2 * ret.top_k)

\* sum over the methods of weight * score / maximum, times the three maxima
\* (lists are the three candidate lists, tops their maxima)
Total(lists, tops, weights, i) ==
    weights[1] * ScoreIn(lists[1], i) * tops[2] * tops[3]
    + weights[2] * ScoreIn(lists[2], i) * tops[1] * tops[3]
    + weights[3] * ScoreIn(lists[3], i) * tops[1] * tops[2]

NoRepeats(results) ==
    \A i, j \in 1..Len(results) : results[i].idx = results[j].idx => i = j

\* C1: if the embedding provider fails while search_hybrid runs (on the
\* corpus request or on the query request), search_hybrid still returns,
\* and what it returns is the fusion of the lexical and keyword candidates
\* with an empty semantic list.
C1_HybridSurvivesProviderFailure ==
    (ret.op = "hybrid" /\ ret.fault # "none") =>
        /\ ret.outcome = "returned"
        /\ ret.result = Fuse(<<Lex, <<>>, Kw>>, ret.weights, MergeOrder,
                             ret.top_k).result

\* C2: search_hybrid fuses 2*top_k candidates of each method: every
\* returned message has the score  sum_m weight_m * score_m / max_m  (0 for
\* a method whose list misses it), and the returned list is the top_k of
\* the candidates by that total, in descending order of total.
C2_FusedScores ==
    Returned("hybrid") =>
        LET lists == <<Lex, Sem, Kw>>
            tops == <<TopOf(lists[1]), TopOf(lists[2]), TopOf(lists[3])>>
            found == IdxSet(lists[1]) \cup IdxSet(lists[2])
                         \cup IdxSet(lists[3])
            total == [i \in found |-> Total(lists, tops, ret.weights, i)]
            res == ret.result
        IN /\ \A j \in 1..Len(res) :
                 /\ res[j].idx \in found
                 /\ res[j].score * tops[1] * tops[2] * tops[3]
                        = ret.den * total[res[j].idx]
           /\ NoRepeats(res)
           /\ Len(res) = Min(ret.top_k, Cardinality(found))
           /\ \A j \in 1..(Len(res) - 1) :
                 total[res[j].idx] >= total[res[j + 1].idx]
           /\ \A i \in found \ IdxSet(res) :
                 \A j \in 1..Len(res) : total[i] <= total[res[j].idx]

\* A fusion under the default weights that returns two of three candidates
\* with different totals, one of them found by all three methods, one not
\* found by the lexical search, one below the top semantic score.
C2_Witness ==
    /\ Returned("hybrid")
    /\ ret.weights = <<3, 5, 2>>
    /\ Len(ret.result) = 2
    /\ Cardinality(IdxSet(Lex) \cup IdxSet(Sem) \cup IdxSet(Kw)) = 3
    /\ ret.result[1].score > ret.result[2].score
    /\ ret.result[2].score > 0
    /\ \E j \in 1..2 : ret.result[j].idx \in
          (IdxSet(Lex) \cap IdxSet(Sem) \cap IdxSet(Kw))
    /\ \E j \in 1..2 : ret.result[j].idx \notin IdxSet(Lex)
    /\ \E j \in 1..2 : ScoreIn(Sem, ret.result[j].idx) \in 1..(TopOf(Sem) - 1)

\* C3: in the list search_hybrid returns, two messages of equal fused score
\* are in corpus order.
C3_FusedTiesInCorpusOrder ==
    Returned("hybrid") =>
        \A i, j \in 1..Len(ret.result) :
            (i < j /\ ret.result[i].score = ret.result[j].score)
                => ret.result[i].idx < ret.result[j].idx

\* C4: with weights (1, 0, 0) search_hybrid returns the messages of
\* search_bm25(query, top_k), in the same order, and no others.
C4_LexicalWeightsGiveBm25 ==
    (Returned("hybrid") /\ ret.weights = <<10, 0, 0>>) =>
        Idxs(ret.result) = Idxs(SearchBm25(query, ret.top_k))

\* C5: the ranking search_hybrid returns is the one every order of merging
\* the three candidate lists gives.
C5_MergeOrderIrrelevant ==
    Returned("hybrid") =>
        \A order \in Perms(3) :
            Idxs(Fuse(<<Lex, Sem, Kw>>, ret.weights, order,
                      ret.top_k).result) = Idxs(ret.result)

\* C6: with concurrent callers on an unbuilt searcher the corpus build is
\* done once and is complete before any caller reads the cache: no caller
\* starts a build while another is building or has built, the cache is
\* assigned at most once, and it is set whenever a caller reads it.
C6_SingleBuild ==
    /\ Cardinality({c \in Callers : pc[c] \in {"request", "store"}}) + stores
           <= 1
    /\ stores <= 1
    /\ \A c \in Callers : pc[c] = "read" => embeddings # None

SemanticOps == {"semantic", "hybrid", "similar"}

C8_EmptyCorpusNeverRaises ==
    Len(messages) = 0 =>
        /\ ret.outcome # "raised"
        /\ ret.result = <<>>

\* C9: search_bm25 returns at most top_k results, every score is > 0, and
\* the scores are in non-increasing order.
C9_Bm25Bounded ==
    ret.op = "bm25" =>
        /\ ret.outcome = "returned"
        /\ Len(ret.result) <= ret.top_k
        /\ \A j \in 1..Len(ret.result) :
              /\ ret.result[j].score > 0
              /\ ret.result[j].score = query.bm25[ret.result[j].idx]
        /\ \A j \in 1..(Len(ret.result) - 1) :
              ret.result[j].score >= ret.result[j + 1].score

\* A lexical search that found a negative score inside the first top_k and
\* left it out.
C9_Witness ==
    /\ ret.op = "bm25"
    /\ ret.top_k = 2
    /\ Len(ret.result) = 1
    /\ \A i \in 1..Len(messages) : query.bm25[i] # 0
    /\ \E i \in 1..Len(messages) : query.bm25[i] < 0

\* C10: in the list search_bm25 returns, equal scores are in corpus order,
\* and of the messages that tie at the cut the earliest are kept.
C10_Bm25TiesInCorpusOrder ==
    ret.op = "bm25" =>
        /\ \A i, j \in 1..Len(ret.result) :
              (i < j /\ ret.result[i].score = ret.result[j].score)
                  => ret.result[i].idx < ret.result[j].idx
        /\ \A j \in 1..Len(ret.result) :
              \A i \in 1..Len(messages) :
                  (i \notin IdxSet(ret.result)
                       /\ query.bm25[i] = ret.result[j].score)
                      => ret.result[j].idx < i

----------------------------------------------------------------------------
(* Keyword search *)

\* text.count(sub) after folding both when the search ignores case: the
\* occurrences of the text as a substring, left to right without overlap
Fold(text, ignorecase) ==
    IF ignorecase THEN [i \in 1..Len(text) |-> Lower(text[i])] ELSE text

RECURSIVE SubstringCount(_, _, _)
SubstringCount(content, text, pos) ==
    IF pos + Len(text) - 1 > Len(content) THEN 0
    ELSE IF SubSeq(content, pos, pos + Len(text) - 1) = text
         THEN 1 + SubstringCount(content, text, pos + Len(text))
         ELSE SubstringCount(content, text, pos + 1)

LiteralCounts(msgs, text, ignorecase) ==
    [i \in 1..Len(msgs) |->
        SubstringCount(Fold(msgs[i].content, ignorecase),
                       Fold(text, ignorecase), 1)]

\* C11: on a pattern that is not a regular expression search_keyword
\* returns (it does not raise), and returns the results of a literal
\* substring search for the pattern text with the same case flag.
C11_InvalidPatternIsLiteral ==
    (ret.op = "keyword" /\ ~RegexValid(query.pattern)) =>
        /\ ret.outcome = "returned"
        /\ ret.result =
              SearchKeyword([kw |-> LiteralCounts(messages, query.pattern,
                                                  query.case_insensitive)],
                            ret.top_k)

\* C12: search_keyword returns exactly the messages with at least one
\* match, limited to the top_k highest match counts: each result is scored
\* by its match count, counts are non-increasing, equal counts are in
\* corpus order, and a matching message left out ranks after every result.
C12_KeywordRanking ==
    Returned("keyword") =>
        LET counts == KeywordCounts(messages, query.pattern,
                                    query.case_insensitive)
            hits == {i \in 1..Len(messages) : counts[i] >= 1}
            res == ret.result
            Before(i, j) == counts[i] > counts[j]
                               \/ (counts[i] = counts[j] /\ i < j)
        IN /\ Len(res) = Min(ret.top_k, Cardinality(hits))
           /\ \A j \in 1..Len(res) :
                 /\ res[j].idx \in hits
                 /\ res[j].score = counts[res[j].idx]
           /\ \A j \in 1..(Len(res) - 1) : Before(res[j].idx, res[j + 1].idx)
           /\ \A i \in hits \ IdxSet(res) :
                 \A j \in 1..Len(res) : Before(res[j].idx, i)

\* Two of three matching messages returned: the first with more matches
\* than the second, the second tied with the one left out.
C12_Witness ==
    /\ Returned("keyword")
    /\ ret.top_k = 2
    /\ Len(ret.result) = 2
    /\ ret.result[1].score > ret.result[2].score
    /\ ret.result[1].idx > ret.result[2].idx
    /\ \E i \in 1..Len(messages) :
          /\ i \notin IdxSet(ret.result)
          /\ KeywordCounts(messages, query.pattern,
                           query.case_insensitive)[i] = ret.result[2].score

----------------------------------------------------------------------------
(* Semantic search *)

\* 25 times the cosine of the angle between two vectors, 0 when one of them
\* has zero norm
Cosine25(a, b) ==
    IF Dot(a, a) = 0 \/ Dot(b, b) = 0 THEN 0
    ELSE CHOOSE c \in -25..25 :
             /\ c * c * Dot(a, a) * Dot(b, b) = 625 * Dot(a, b) * Dot(a, b)
             /\ c * Dot(a, b) >= 0

\* C13: search_semantic returns the top_k messages of highest cosine
\* similarity among those with similarity > 0, in descending similarity
\* with ties in corpus order; the similarity is 0 when a vector has zero
\* norm, so a zero-norm query vector gives an empty list.
C13_SemanticRanking ==
    Returned("semantic") =>
        LET sim == [i \in 1..Len(messages) |->
                       Cosine25(query.vec, messages[i].emb)]
            pos == {i \in 1..Len(messages) : sim[i] > 0}
            res == ret.result
            Before(i, j) == sim[i] > sim[j] \/ (sim[i] = sim[j] /\ i < j)
        IN /\ Len(res) = Min(ret.top_k, Cardinality(pos))
           /\ \A j \in 1..Len(res) :
                 /\ res[j].idx \in pos
                 /\ res[j].score = sim[res[j].idx]
           /\ \A j \in 1..(Len(res) - 1) : Before(res[j].idx, res[j + 1].idx)
           /\ \A i \in pos \ IdxSet(res) :
                 \A j \in 1..Len(res) : Before(res[j].idx, i)
           /\ Dot(query.vec, query.vec) = 0 => res = <<>>

\* A query of non-zero norm over three messages, one of them with a zero
\* vector and two equally similar: asked for two, the two come back in
\* corpus order with the zero vector, which precedes them, left out.
C13_Witness ==
    /\ Returned("semantic")
    /\ ret.top_k = 2
    /\ Len(messages) = 3
    /\ messages[1].emb = <<0, 0>>
    /\ Idxs(ret.result) = <<2, 3>>
    /\ ret.result[1].score = ret.result[2].score

----------------------------------------------------------------------------
(* Segmentation and thread scores *)

Segmented == Returned("threads") /\ Len(messages) > 0

Times == {messages[i].ts : i \in 1..Len(messages)}

\* no gap above max_gap separates message i from message j: every
\* timestamp from the earlier up to the later is followed within max_gap
SameRun(i, j, max_gap) ==
    LET lo == Min(messages[i].ts, messages[j].ts)
        hi == Max(messages[i].ts, messages[j].ts)
    IN \A a \in Times :
           (lo <= a /\ a < hi) => \E b \in Times : a < b /\ b - a <= max_gap

\* the maximal runs of at least min_messages messages, as sets of messages
Runs(max_gap, min_messages) ==
    {r \in {{j \in 1..Len(messages) : SameRun(i, j, max_gap)} :
                i \in 1..Len(messages)} : Cardinality(r) >= min_messages}

RunStart(r) == CHOOSE t \in {messages[i].ts : i \in r} :
                   \A i \in r : t <= messages[i].ts
RunEnd(r) == CHOOSE t \in {messages[i].ts : i \in r} :
                 \A i \in r : t >= messages[i].ts

IsRun(thread, r) ==
    /\ thread.start_time = RunStart(r)
    /\ thread.end_time = RunEnd(r)
    /\ thread.message_count = Cardinality(r)

\* C14: the threads of a segmentation are the maximal runs of messages
\* whose gaps are all <= max_gap_minutes and that have at least
\* min_messages messages, the last run of the stream included and shorter
\* runs discarded: every returned thread is such a run, no run is returned
\* twice, and all of them are returned when there are at most five.
C14_MaximalRuns ==
    Segmented =>
        LET runs == Runs(ret.max_gap, ret.min_messages)
            res == ret.result
        IN /\ \A j \in 1..Len(res) : \E r \in runs : IsRun(res[j], r)
           /\ \A j, k \in 1..Len(res) :
                 res[j].start_time = res[k].start_time => j = k
           /\ Len(res) = Min(Cardinality(runs), TopThreads)

\* Six messages with min_messages = 2: a run of three, a single message
\* that is discarded, and a final run of two that is committed.
C14_Witness ==
    /\ Segmented
    /\ ret.min_messages = 2
    /\ Len(messages) = 6
    /\ Len(ret.result) = 2
    /\ \E j, k \in 1..2 :
          /\ ret.result[j].message_count = 3
          /\ ret.result[j].start_time = 0
          /\ ret.result[k].message_count = 2
          /\ \A i \in 1..6 : messages[i].ts <= ret.result[k].end_time

\* C15: the segmentation returns every committed thread, in chronological
\* order of start time, however many there are.
C15_AllThreadsChronological ==
    Segmented =>
        /\ Len(ret.result)
              = Cardinality(Runs(ret.max_gap, ret.min_messages))
        /\ \A j \in 1..(Len(ret.result) - 1) :
              ret.result[j].start_time < ret.result[j + 1].start_time

ScoredThreads ==
    LET threads == CommittedThreads(messages, ret.max_gap, ret.min_messages)
    IN {ScoreThread(threads[i], messages, Cardinality(participants)) :
           i \in 1..Len(threads)}

\* exchange_score of a above that of b (same participant count)
Higher(a, b) == a.num * b.dq > b.num * a.dq

\* C16: find_conversation_threads returns at most 5 threads, in
\* non-increasing exchange_score order, and no committed thread left out
\* has a higher exchange_score than a returned one.
C16_TopFiveByScore ==
    Segmented =>
        LET res == ret.result
        IN /\ Len(res) <= 5
           /\ \A j \in 1..Len(res) : res[j] \in ScoredThreads
           /\ \A j \in 1..(Len(res) - 1) : ~Higher(res[j + 1], res[j])
           /\ \A t \in ScoredThreads :
                 (\A j \in 1..Len(res) : res[j].start_time # t.start_time)
                     => \A j \in 1..Len(res) : ~Higher(t, res[j])

\* Six committed threads of two different scores: five are returned, the
\* earliest thread of the chat last because it scores lowest, and the one
\* left out scores below the first one returned.
C16_Witness ==
    /\ Segmented
    /\ Cardinality(ScoredThreads) = 6
    /\ Len(ret.result) = 5
    /\ ret.result[5].start_time = 0
    /\ Higher(ret.result[4], ret.result[5])
    /\ \E t \in ScoredThreads :
          /\ \A j \in 1..5 : ret.result[j].start_time # t.start_time
          /\ Higher(ret.result[1], t)

InUnit(f) == f[2] > 0 /\ 0 <= f[1] /\ f[1] <= f[2]

\* C17: the exchange_score of every thread and each of its four factors
\* lie in [0,1], also when the participant list misses a sender.
C17_ScoreInUnitInterval ==
    Segmented =>
        \A j \in 1..Len(ret.result) :
            LET t == ret.result[j]
            IN /\ InUnit(t.factors.alternation_ratio)
               /\ InUnit(t.factors.participant_factor)
               /\ InUnit(t.factors.message_factor)
               /\ InUnit(t.factors.length_factor)
               /\ InUnit(<<t.num, 25000 * Cardinality(participants) * t.dq>>)

RECURSIVE Gcd(_, _)
Gcd(a, b) == IF b = 0 THEN a ELSE Gcd(b, a % b)

\* the fraction n/d in lowest terms
Rat(n, d) == <<n \div Gcd(n, d), d \div Gcd(n, d)>>
RatAdd(x, y) == Rat(x[1] * y[2] + y[1] * x[2], x[2] * y[2])

RECURSIVE TotalLength(_)
TotalLength(r) ==
    IF r = {} THEN 0
    ELSE LET i == CHOOSE i \in r : TRUE
         IN messages[i].clen + TotalLength(r \ {i})

\* message i comes before message j in time, in input order when the
\* timestamps are equal
Earlier(i, j) ==
    messages[i].ts < messages[j].ts
        \/ (messages[i].ts = messages[j].ts /\ i < j)

\* adjacent pairs of the run with different senders
SenderChanges(r) ==
    Cardinality({p \in r \X r :
        /\ Earlier(p[1], p[2])
        /\ ~\E k \in r : Earlier(p[1], k) /\ Earlier(k, p[2])
        /\ messages[p[1]].sender # messages[p[2]].sender})

\* 0.4*alternation + 0.2*senders/participants + 0.2*min(count/50, 1)
\*   + 0.2*min(average length/100, 1)
ExpectedScore(r) ==
    LET count == Cardinality(r)
        alternation == IF count <= 1 THEN <<0, 1>>
                       ELSE <<SenderChanges(r), count - 1>>
        senders == Cardinality({messages[i].sender : i \in r})
    IN RatAdd(RatAdd(Rat(2 * alternation[1], 5 * alternation[2]),
                     Rat(senders, 5 * Cardinality(participants))),
              RatAdd(Rat(Min(count, 50), 5 * 50),
                     Rat(Min(TotalLength(r), 100 * count), 5 * 100 * count)))

\* C18: exchange_score = 0.4*alternation_ratio + 0.2*(distinct senders /
\* participants) + 0.2*min(message_count/50, 1) + 0.2*min(average content
\* length/100, 1), with alternation_ratio = sender changes / (message_count
\* - 1), and 0 for a thread of one message.
C18_ExchangeScoreFormula ==
    Segmented =>
        LET runs == Runs(ret.max_gap, ret.min_messages)
        IN \A j \in 1..Len(ret.result) :
            LET t == ret.result[j]
                r == CHOOSE r \in runs : RunStart(r) = t.start_time
            IN Rat(t.num, 25000 * Cardinality(participants) * t.dq)
                   = ExpectedScore(r)

\* A returned thread of four messages whose senders are A, B, A, B: three
\* of three adjacent pairs differ.
C18_Witness ==
    /\ Segmented
    /\ \E j \in 1..Len(ret.result) :
          /\ ret.result[j].message_count = 4
          /\ ret.result[j].factors.alternation_ratio = <<3, 3>>
          /\ ret.result[j].start_time = 0
          /\ messages[1].sender = "A"

----------------------------------------------------------------------------
(* Misuse and frame *)

\* C19: a search called with a negative top_k fails with an error; it
\* does not return a list.
C19_NegativeTopKFails ==
    (ret.op # "none" /\ ret.top_k < 0) => ret.outcome = "raised"

\* the working copy of a segmentation: every message once, in ascending
\* time, messages of equal time in their input order
SortedCopyIsStable ==
    LET sorted == SortedMsgs(messages)
    IN /\ IsPermOf(sorted, Len(messages))
       /\ \A i, j \in 1..Len(sorted) :
             i < j => Earlier(sorted[i], sorted[j])

\* C20: segmentation and every search leave the caller's message sequence
\* as it was (order and fields), chronological or not, and the sorted
\* working copy keeps messages of equal timestamp in input order.
C20_MessagesUntouched ==
    /\ [][messages' = messages]_vars
    /\ [](ret.op = "threads" => SortedCopyIsStable)

\* A segmentation of a chat that is not in chronological order and has
\* two messages of the same time, made after a search on the same messages.
C20_Witness ==
    /\ Returned("threads")
    /\ budget = 0
    /\ status = "ready"
    /\ \E i, j \in 1..Len(messages) :
          i < j /\ messages[i].ts > messages[j].ts
    /\ \E i, j \in 1..Len(messages) :
          i < j /\ messages[i].ts = messages[j].ts

----------------------------------------------------------------------------
(* Tokenizer *)

IsAlnum(c) == c \in {"a", "b", "B"}

\* position i of the text starts a maximal run of alphanumeric characters
\* that ends at position j
IsAlnumRun(text, i, j) ==
    /\ i <= j
    /\ \A k \in i..j : IsAlnum(text[k])
    /\ i = 1 \/ ~IsAlnum(text[i - 1])
    /\ j = Len(text) \/ ~IsAlnum(text[j + 1])

\* C21: the tokens of a text are its maximal alphanumeric runs, lowercased,
\* in order; every other character (underscore included) separates; the
\* empty text has no tokens.
C21_TokensAreAlnumRuns ==
    Returned("tokenize") =>
        LET text == query.text
            runs == {p \in (1..Len(text)) \X (1..Len(text)) :
                        IsAlnumRun(text, p[1], p[2])}
            tokens == ret.result
        IN /\ Len(tokens) = Cardinality(runs)
           /\ \A p \in runs :
                 LET k == Cardinality({q \in runs : q[1] <= p[1]})
                 IN tokens[k] = [i \in 1..(p[2] - p[1] + 1) |->
                                   LowerChar(text[p[1] + i - 1])]

----------------------------------------------------------------------------
(* Batched embedding requests *)

\* C22: get_embeddings_batch returns one vector a text, the i-th being the
\* embedding of the i-th text, for every batch size >= 1 and every order in
\* which the provider lists the items of a batch.
C22_BatchKeepsTextOrder ==
    Returned("embeddings_batch") =>
        /\ Len(ret.result) = Len(messages)
        /\ \A i \in 1..Len(messages) : ret.result[i] = messages[i].emb

\* Three texts in batches of two, the provider listing every batch backwards
C22_Witness ==
    /\ Returned("embeddings_batch")
    /\ Len(messages) = 3
    /\ messages[1].emb # messages[2].emb
    /\ query.batch_size = 2
    /\ query.order = <<3, 2, 1>>

----------------------------------------------------------------------------
(* search_by_sender without a query *)

FromSender(sender) == {i \in 1..Len(messages) : messages[i].sender = sender}

\* C23: search_by_sender without a query returns exactly the last
\* min(top_k, n) of the sender's n messages, in corpus order, for every
\* top_k >= 0: none when top_k is 0, and never more than top_k.
C23_LastTopKOfSender ==
    (Returned("sender") /\ ret.top_k >= 0) =>
        \E sender \in Senders :
            LET n == Cardinality(FromSender(sender))
                k == Min(ret.top_k, n)
            IN /\ Len(ret.result) = k
               /\ \A j \in 1..k :
                     /\ ret.result[j].idx \in FromSender(sender)
                     /\ Cardinality({i \in FromSender(sender) :
                                        i > ret.result[j].idx}) = k - j

----------------------------------------------------------------------------
(* Thread samples and thread fields *)

\* the message at 0-based position p of the run, in chronological order
\* (equal timestamps in input order)
AtPos(r, p) ==
    CHOOSE i \in r : Cardinality({k \in r : Earlier(k, i)}) = p

ExpectedSample(r) ==
    LET n == Cardinality(r)
        Exists(p) == p < n
        at == SelectSeq(<<0, 1, 2>>, Exists)
                  \o SelectSeq(<<n \div 2, n \div 2 + 1>>, Exists)
    IN [k \in 1..Len(at) |->
          [msg |-> AtPos(r, at[k]),
           len |-> Min(messages[AtPos(r, at[k])].clen, 100)]]

\* C24: the sample of a thread of n messages is the texts of its first
\* three messages followed by those of the messages at positions
\* floor(n/2) and floor(n/2)+1 (counted from 0, where they exist), each cut
\* to at most 100 characters; it has at most 5 entries.
C24_SampleOfThread ==
    Segmented =>
        LET runs == Runs(ret.max_gap, ret.min_messages)
        IN \A j \in 1..Len(ret.result) :
               /\ \E r \in runs :
                     /\ IsRun(ret.result[j], r)
                     /\ ret.result[j].sample_messages = ExpectedSample(r)
               /\ Len(ret.result[j].sample_messages) <= 5

\* A thread of four messages, the third sampled twice, and a text of 200
\* characters cut to 100
C24_Witness ==
    /\ Segmented
    /\ \E j \in 1..Len(ret.result) :
          LET t == ret.result[j]
          IN /\ t.message_count = 4
             /\ Len(t.sample_messages) = 5
             /\ t.sample_messages[3].msg = t.sample_messages[4].msg
             /\ \E k \in 1..5 :
                   /\ t.sample_messages[k].len = 100
                   /\ messages[t.sample_messages[k].msg].clen > 100

\* C25: a returned thread starts at the timestamp of its earliest message
\* and ends at that of its latest, so start_time <= end_time and
\* duration_minutes >= 0; message_count is the number of its messages and
\* is >= min_messages; participants are the distinct senders of its
\* messages.
C25_ThreadFields ==
    Segmented =>
        LET runs == Runs(ret.max_gap, ret.min_messages)
        IN \A j \in 1..Len(ret.result) :
            LET t == ret.result[j]
            IN /\ \E r \in runs :
                     /\ t.start_time = RunStart(r)
                     /\ t.end_time = RunEnd(r)
                     /\ t.message_count = Cardinality(r)
                     /\ t.participants = {messages[i].sender : i \in r}
               /\ t.start_time <= t.end_time
               /\ DurationMinutes(t) >= 0
               /\ t.message_count >= ret.min_messages

\* A chat given latest message first, one thread with both senders
C25_Witness ==
    /\ Segmented
    /\ messages[1].ts > messages[Len(messages)].ts
    /\ \E j \in 1..Len(ret.result) :
          /\ ret.result[j].participants = {"A", "B"}
          /\ DurationMinutes(ret.result[j]) > 0
          /\ ret.result[j].start_time = messages[Len(messages)].ts
          /\ ret.result[j].message_count = Len(messages)

----------------------------------------------------------------------------
(* Disjoint threads *)

Members(thread) == {thread[i] : i \in 1..Len(thread)}

\* C29: for max_gap_minutes >= 0 the committed threads of a chat are
\* pairwise disjoint, their time ranges do not overlap, and the messages
\* summarize_thread selects by time range for a thread are exactly the
\* thread's own messages.
C29_ThreadsDisjoint ==
    (Segmented /\ ret.max_gap >= 0) =>
        LET threads == CommittedThreads(messages, ret.max_gap,
                                        ret.min_messages)
            scored == [a \in 1..Len(threads) |->
                         ScoreThread(threads[a], messages,
                                     Cardinality(participants))]
        IN /\ \A a, b \in 1..Len(threads) :
                 a # b =>
                    /\ Members(threads[a]) \cap Members(threads[b]) = {}
                    /\ \/ scored[a].end_time < scored[b].start_time
                       \/ scored[b].end_time < scored[a].start_time
           /\ \A a \in 1..Len(threads) :
                 SummarizeSelection(scored[a], messages) = threads[a]

\* Two committed threads with a discarded message between them, one of the
\* threads holding two messages of the same minute
C29_Witness ==
    /\ Segmented
    /\ ret.min_messages = 2
    /\ LET threads == CommittedThreads(messages, ret.max_gap,
                                       ret.min_messages)
       IN /\ Len(threads) = 2
          /\ \E i \in 1..Len(messages) :
                /\ i \notin Members(threads[1]) \cup Members(threads[2])
                /\ messages[threads[1][1]].ts < messages[i].ts
                /\ messages[i].ts < messages[threads[2][1]].ts
          /\ \E a \in 1..2 :
                messages[threads[a][1]].ts = messages[threads[a][2]].ts

----------------------------------------------------------------------------
(* Fused results are distinct messages *)

\* C26: search_hybrid returns at most top_k results and no message twice,
\* also when a message is found by several methods and when distinct
\* messages of the corpus have the same text.
C26_HybridDistinct ==
    (Returned("hybrid") /\ ret.top_k >= 0) =>
        /\ Len(ret.result) <= ret.top_k
        /\ NoRepeats(ret.result)

\* Two messages with the same text, each found by BM25, by the keyword and
\* by the semantic search, both returned
C26_Witness ==
    /\ Returned("hybrid")
    /\ Len(messages) >= 2
    /\ messages[1] = messages[2]
    /\ \A i \in 1..2 :
          /\ query.bm25[i] > 0
          /\ query.kw[i] > 0
          /\ Dot(messages[i].emb, query.vec) > 0
    /\ {ret.result[j].idx : j \in 1..Len(ret.result)} = {1, 2}

----------------------------------------------------------------------------
(* A failed embedding build *)

\* C27: if the provider fails during the corpus embedding build, nothing is
\* cached (the cache is unset, with no partial embeddings); search_bm25 and
\* search_keyword keep working; and a semantic-dependent call goes without
\* a request only once a build has succeeded, a build that succeeds caching
\* the embeddings of all messages.
C27_FailedBuildCachesNothing ==
    /\ (ret.op \in SemanticOps \cup {"init"} /\ ret.fault = "build") =>
          embeddings = None
    /\ embeddings \in {None, EmbedAll(messages)}
    /\ (requests > stores /\ ret.op = "bm25") =>
          /\ ret.outcome = "returned"
          /\ ret.result = SearchBm25(query, ret.top_k)
    /\ (requests > stores /\ ret.op = "keyword") =>
          /\ ret.outcome = "returned"
          /\ ret.result = SearchKeyword(query, ret.top_k)
    /\ (ret.op \in SemanticOps /\ ~ret.requested) =>
          (stores = 1 /\ embeddings = EmbedAll(messages))
    /\ (ret.op \in SemanticOps /\ ret.requested /\ ret.fault # "build") =>
          (stores = 1 /\ embeddings = EmbedAll(messages))

\* A build that failed, then a semantic-dependent call that requests the
\* corpus again and caches the embeddings of all messages
C27_Witness ==
    /\ ret.op \in SemanticOps
    /\ ret.requested
    /\ requests = 2
    /\ stores = 1
    /\ Len(messages) >= 2
    /\ embeddings = EmbedAll(messages)

----------------------------------------------------------------------------
(* find_similar_messages *)

\* C28: for a reference message of the corpus, find_similar_messages
\* returns at most top_k results and never the reference message itself,
\* also when other messages have the same text or the same similarity.
C28_SimilarExcludesReference ==
    (Returned("similar") /\ ret.top_k >= 0) =>
        /\ Len(ret.result) <= ret.top_k
        /\ \A j \in 1..Len(ret.result) : ret.result[j].idx # ret.ref

----------------------------------------------------------------------------
(* The features cache *)

\* C30: a call of load_or_extract_features without force_rebuild returns
\* cached features only if the chat's messages are those the cache was
\* written from; after any change to the messages it returns features
\* extracted afresh from them and leaves them in the cache file.
C30_CacheFollowsMessages ==
    (Returned("load_features") /\ ~ret.force_rebuild) =>
        /\ ret.result = ExtractAllFeatures(messages)
        /\ cache = [exists |-> TRUE,
                    features |-> ExtractAllFeatures(messages)]

====
